---- MODULE Spec2Model ----
(***************************************************************************)
(* A model of pymailtm's API access layer (src/pymailtm/api.py): the       *)
(* request dispatcher, the account manager, and the Account and Message    *)
(* resources with their local caches.                                      *)
(*                                                                         *)
(* Every call of the library is synchronous.  A call runs until it sends   *)
(* an HTTP request, blocks, and continues when the response arrives; the   *)
(* model has one action for the start of each call and one for each        *)
(* response it waits for.  While a call is running (pc # "idle") only its  *)
(* own continuation is enabled.  The records of a call (its locals, the    *)
(* requests it sent, the response it received last, its outcome) stay      *)
(* until the next call starts.                                             *)
(*                                                                         *)
(* The server is the environment: every response is chosen                 *)
(* nondeterministically, an error status or a success with any body of     *)
(* the bounded shape.                                                      *)
(*                                                                         *)
(* Optional values (Python's None) are sequences of length 0 or 1.         *)
(* Objects (Account, Message) live in heaps indexed by identity.           *)
(***************************************************************************)
EXTENDS Integers, Sequences, FiniteSets, TLC

VARIABLES
    accounts,   \* heap of Account objects, in order of construction
    msgs,       \* heap of Message objects that the caller can reach
    pc,         \* position of the running call ("idle" when none runs)
    frame,      \* locals of the current (or last) call
    sent,       \* the requests sent by the current (or last) call, in order
    received,   \* the response the current (or last) call received last
    result      \* how the last call ended and what it returned

vars == <<accounts, msgs, pc, frame, sent, received, result>>

---------------------------------------------------------------------------
\* Bounds of the model

MaxAccounts == 1
MaxMsgs == 2
MaxPages == 2
MaxPageSize == 2
MaxDomains == 2
MaxTextLen == 122

\* Message.__post_init__ keeps this many characters of the text ...
IntroLen == 120
\* ... and marks a longer text with this one character (U+2026).
Ellipsis == "..."

---------------------------------------------------------------------------
\* Values

None == <<>>
Some(x) == <<x>>

api_address == "https://api.mail.tm"

Users == {"bob"}
DomainNames == {"d1.test", "d2.test"}
RequestedDomains == DomainNames \cup {"nonexistent.test"}
Passwords == {"pw"}
GeneratedUsers == {"rnduser"}
GeneratedPasswords == {"aB3dE9"}
Tokens == {"t1", "t2"}
AccountIds == {"acc1"}
MsgIds == {"m1", "m2"}
Intros == {<<"x">>, <<"y">>}
\* A message does not change on the server: each id has its own intro.
ServerIntro == ("m1" :> <<"x">>) @@ ("m2" :> <<"y">>)
Texts == {<<"h", "i">>}
ErrorStatuses == {401, 500}

Opt(S) == {None} \cup {Some(x) : x \in S}

SeqsUpTo(S, n) == UNION {[1..k -> S] : k \in 0..n}

---------------------------------------------------------------------------
\* Request dispatcher

\* `if jwt:` -- a token is used when it is neither None nor the empty string.
Truthy(jwt) == jwt # None /\ jwt[1] # ""

\* json.dumps(data): the payload is the serialized form of the body.
JsonDumps(data) == [json |-> data]

\* The request, had the Authorization header been added without looking at
\* the token.
BuildRequest_always_auth(verb, endpoint, jwt, data, content) ==
    [ verb     |-> verb,
      url      |-> <<api_address>> \o endpoint,
      headers  |-> [ accept        |-> "application/ld+json",
                     contentType   |-> content,
                     authorization |-> Some(<<"Bearer",
                                              IF jwt = None THEN "None" ELSE jwt[1]>>) ],
      payload  |-> IF verb \in {"POST", "PATCH"} /\ data # None
                   THEN Some(JsonDumps(data[1]))
                   ELSE None ]

\* The request, had the body been sent with every verb.
BuildRequest_any_verb(verb, endpoint, jwt, data, content) ==
    [ verb     |-> verb,
      url      |-> <<api_address>> \o endpoint,
      headers  |-> [ accept        |-> "application/ld+json",
                     contentType   |-> content,
                     authorization |-> IF Truthy(jwt)
                                       THEN Some(<<"Bearer", jwt[1]>>)
                                       ELSE None ],
      payload  |-> IF data # None THEN Some(JsonDumps(data[1])) ELSE None ]

\* The request make_api_request builds from its arguments.
BuildRequest(verb, endpoint, jwt, data, content) ==
    [ verb     |-> verb,
      url      |-> <<api_address>> \o endpoint,
      headers  |-> [ accept        |-> "application/ld+json",
                     contentType   |-> content,
                     authorization |-> IF Truthy(jwt)
                                       THEN Some(<<"Bearer", jwt[1]>>)
                                       ELSE None ],
      payload  |-> IF verb \in {"POST", "PATCH"} /\ data # None
                   THEN Some(JsonDumps(data[1]))
                   ELSE None ]

\* response.raise_for_status()
RaisesForStatus(status) == status >= 400 /\ status < 600

EmptyDict == [empty |-> TRUE]

\* What make_api_request returns for a response that did not raise.
DecodeResponse(resp) ==
    IF Len(resp.content) > 0 THEN resp.content[1] ELSE EmptyDict

ErrorResponses == [status : ErrorStatuses, content : {None}]

OkResponses(bodies) == [status : {200}, content : {Some(b) : b \in bodies}]

\* The statuses of a response without content that raise_for_status lets
\* through: 204 No Content, and 304 as one of those below 400 that are not
\* of the 2xx class.
NoContentStatuses == {204, 304}

\* The responses to a request whose response body the caller does not read.
DeleteResponses == ErrorResponses \cup [status : NoContentStatuses, content : {None}]

---------------------------------------------------------------------------
\* Call frames and results

Frame0 ==
    [ self |-> 0, user |-> None, domain |-> None, password |-> None,
      address |-> None, jwt |-> None, page |-> 0, messages |-> <<>>,
      args |-> None ]

Returned(op, value) == [op |-> op, kind |-> "ok", value |-> Some(value)]
ReturnedNone(op) == [op |-> op, kind |-> "ok", value |-> None]
Raised(op, error) == [op |-> op, kind |-> error, value |-> None]
Running(op) == [op |-> op, kind |-> "running", value |-> None]

\* make_api_request up to the point where the request is on the wire.
Send(req) == sent' = Append(sent, req)

\* The first request of a call: the records of the previous call are dropped.
SendFirst(req) == sent' = <<req>> /\ received' = None

---------------------------------------------------------------------------
\* Domain and Account records

Domain(name) == [domain |-> name, isActive |-> TRUE]

DomainLists == SeqsUpTo({Domain(n) : n \in DomainNames}, MaxDomains)

\* Account._from_dict, had it dropped the token.
Account_from_dict_no_jwt(data, jwt) ==
    [ id        |-> data.id,
      address   |-> data.address,
      isDeleted |-> data.isDeleted,
      password  |-> data.password,
      messages  |-> <<>>,
      jwt       |-> None ]

\* Account._from_dict(data, jwt)
Account_from_dict(data, jwt) ==
    [ id        |-> data.id,
      address   |-> data.address,
      isDeleted |-> data.isDeleted,
      password  |-> data.password,
      messages  |-> <<>>,
      jwt       |-> jwt ]

\* Account.is_logged_in()
is_logged_in(account) ==
    account.jwt # None /\ Len(account.jwt[1]) > 0

Addresses == [user : Users \cup GeneratedUsers, domain : DomainNames]

\* The account data the server sends for POST `accounts` and GET `me`.
AccountData == [id : AccountIds, address : Addresses, isDeleted : {FALSE}]

AccountResponses == ErrorResponses \cup OkResponses(AccountData)

\* make_api_request from the arrival of the response on.
Receive(resp) == received' = Some(resp)

\* A call ends (it returns or raises); `frame` keeps its locals as they were
\* at the end until the next call starts.
EndCall(res) == pc' = "idle" /\ frame' = frame /\ result' = res

---------------------------------------------------------------------------
\* DomainManager

\* DomainManager.get_active_domains(), from the decoded response on.
get_active_domains(data) ==
    [i \in 1..Len(data.hydra_member) |-> data.hydra_member[i]]

DomainsResponses ==
    ErrorResponses \cup OkResponses({[hydra_member |-> l] : l \in DomainLists})

\* Domain._from_dict(domain_data)
Domain_from_dict(domain_data) ==
    [domain |-> domain_data.domain, isActive |-> domain_data.isActive]

DomainIds == {"dom1"}

DomainResponses ==
    ErrorResponses \cup OkResponses({Domain(n) : n \in DomainNames})

\* DomainManager.get_active_domains() called on its own, up to the request.
GetActiveDomains ==
    /\ pc = "idle"
    /\ frame' = Frame0
    /\ SendFirst(BuildRequest("GET", <<"domains">>, None, None, "application/json"))
    /\ pc' = "get_active_domains"
    /\ result' = Running("DomainManager.get_active_domains")
    /\ UNCHANGED <<accounts, msgs>>

\* DomainManager.get_active_domains(), from the response to the return.
GetActiveDomainsDone(resp) ==
    /\ pc = "get_active_domains"
    /\ Receive(resp)
    /\ EndCall(IF RaisesForStatus(resp.status)
               THEN Raised("DomainManager.get_active_domains", "HTTPError")
               ELSE Returned("DomainManager.get_active_domains",
                             get_active_domains(DecodeResponse(resp))))
    /\ UNCHANGED <<accounts, msgs, sent>>

\* DomainManager.get_domain(id), up to the request.
GetDomain(id) ==
    /\ pc = "idle"
    /\ frame' = Frame0
    /\ SendFirst(BuildRequest("GET", <<"domains", id>>, None, None,
                              "application/json"))
    /\ pc' = "get_domain"
    /\ result' = Running("DomainManager.get_domain")
    /\ UNCHANGED <<accounts, msgs>>

\* DomainManager.get_domain(id), from the response to the return.
GetDomainDone(resp) ==
    /\ pc = "get_domain"
    /\ Receive(resp)
    /\ EndCall(IF RaisesForStatus(resp.status)
               THEN Raised("DomainManager.get_domain", "HTTPError")
               ELSE Returned("DomainManager.get_domain",
                             Domain_from_dict(DecodeResponse(resp))))
    /\ UNCHANGED <<accounts, msgs, sent>>

---------------------------------------------------------------------------
\* AccountManager

\* _generate_address, had it not checked a given domain against the list.
generate_address_unchecked(user, domain, valid_domains, generated) ==
    IF domain = None /\ Len(valid_domains) = 0
    THEN [kind |-> "IndexError", address |-> None]
    ELSE [kind |-> "ok",
          address |-> Some([user   |-> IF user = None THEN generated ELSE user[1],
                            domain |-> IF domain = None
                                       THEN valid_domains[1].domain
                                       ELSE domain[1]])]

\* _generate_address, had it taken the last active domain as the default.
generate_address_last_domain(user, domain, valid_domains, generated) ==
    IF domain = None /\ Len(valid_domains) = 0
    THEN [kind |-> "IndexError", address |-> None]
    ELSE IF /\ domain # None
            /\ Len(SelectSeq(valid_domains, LAMBDA x : x.domain = domain[1])) = 0
    THEN [kind |-> "DomainNotAvailable", address |-> None]
    ELSE [kind |-> "ok",
          address |-> Some([user   |-> IF user = None THEN generated ELSE user[1],
                            domain |-> IF domain = None
                                       THEN valid_domains[Len(valid_domains)].domain
                                       ELSE domain[1]])]

\* AccountManager._generate_address(user, domain), once the active domains
\* are known; `generated` is what generate_username would yield.
generate_address(user, domain, valid_domains, generated) ==
    IF domain = None /\ Len(valid_domains) = 0
    THEN [kind |-> "IndexError", address |-> None]
    ELSE IF /\ domain # None
            /\ Len(SelectSeq(valid_domains, LAMBDA x : x.domain = domain[1])) = 0
    THEN [kind |-> "DomainNotAvailable", address |-> None]
    ELSE [kind |-> "ok",
          address |-> Some([user   |-> IF user = None THEN generated ELSE user[1],
                            domain |-> IF domain = None
                                       THEN valid_domains[1].domain
                                       ELSE domain[1]])]

\* AccountManager.new(user, domain, password), up to the GET `domains`
\* request of _generate_address.
New(user, domain, password) ==
    /\ pc = "idle"
    /\ Len(accounts) < MaxAccounts
    /\ frame' = [Frame0 EXCEPT !.user = user, !.domain = domain,
                               !.password = password]
    /\ SendFirst(BuildRequest("GET", <<"domains">>, None, None, "application/json"))
    /\ pc' = "new:domains"
    /\ result' = Running("AccountManager.new")
    /\ UNCHANGED <<accounts, msgs>>

\* AccountManager.new, from the response to GET `domains` up to the
\* POST `accounts` request.
NewDomains(resp, generatedUser, generatedPassword) ==
    /\ pc = "new:domains"
    /\ Receive(resp)
    /\ IF RaisesForStatus(resp.status)
       THEN /\ EndCall(Raised("AccountManager.new", "HTTPError"))
            /\ UNCHANGED sent
       ELSE LET valid_domains == get_active_domains(DecodeResponse(resp))
                addr == generate_address(frame.user, frame.domain,
                                         valid_domains, generatedUser)
                password == IF frame.password = None
                            THEN generatedPassword
                            ELSE frame.password[1]
                account == [address |-> addr.address[1], password |-> password]
            IN  IF addr.kind # "ok"
                THEN /\ EndCall(Raised("AccountManager.new", addr.kind))
                     /\ UNCHANGED sent
                ELSE /\ frame' = [frame EXCEPT !.address = addr.address,
                                               !.password = Some(password)]
                     /\ Send(BuildRequest("POST", <<"accounts">>, None,
                                          Some(account), "application/json"))
                     /\ pc' = "new:accounts"
                     /\ UNCHANGED result
    /\ UNCHANGED <<accounts, msgs>>

\* AccountManager.new, from the response to POST `accounts` to the return.
NewAccounts(resp) ==
    /\ pc = "new:accounts"
    /\ Receive(resp)
    /\ IF RaisesForStatus(resp.status)
       THEN /\ EndCall(Raised("AccountManager.new", "HTTPError"))
            /\ UNCHANGED accounts
       ELSE LET data == [id        |-> DecodeResponse(resp).id,
                         address   |-> DecodeResponse(resp).address,
                         isDeleted |-> DecodeResponse(resp).isDeleted,
                         password  |-> frame.password[1]]
            IN  /\ accounts' = Append(accounts, Account_from_dict(data, None))
                /\ EndCall(Returned("AccountManager.new", Len(accounts) + 1))
    /\ UNCHANGED <<msgs, sent>>

\* AccountManager.get_jwt(address, password): the request it sends.
get_jwt_request(address, password) ==
    BuildRequest("POST", <<"token">>, None,
                 Some([address |-> address, password |-> password]),
                 "application/json")

TokenResponses == ErrorResponses \cup OkResponses({[token |-> t] : t \in Tokens})

\* AccountManager.get_jwt(address, password) called on its own, up to the
\* request.
GetJwt(address, password) ==
    /\ pc = "idle"
    /\ frame' = [Frame0 EXCEPT !.address = Some(address),
                               !.password = Some(password)]
    /\ SendFirst(get_jwt_request(address, password))
    /\ pc' = "get_jwt"
    /\ result' = Running("AccountManager.get_jwt")
    /\ UNCHANGED <<accounts, msgs>>

\* AccountManager.get_jwt, from the response to the return.
GetJwtDone(resp) ==
    /\ pc = "get_jwt"
    /\ Receive(resp)
    /\ EndCall(IF RaisesForStatus(resp.status)
               THEN Raised("AccountManager.get_jwt", "HTTPError")
               ELSE Returned("AccountManager.get_jwt", DecodeResponse(resp).token))
    /\ UNCHANGED <<accounts, msgs, sent>>

\* AccountManager.get_account_data(jwt, account_id): the request it sends.
get_account_data_request(jwt, account_id) ==
    BuildRequest("GET",
                 IF account_id = None THEN <<"me">> ELSE <<"accounts", account_id[1]>>,
                 Some(jwt), None, "application/json")

\* AccountManager.login(address, password), up to the POST `token` request.
Login(address, password) ==
    /\ pc = "idle"
    /\ Len(accounts) < MaxAccounts
    /\ frame' = [Frame0 EXCEPT !.address = Some(address),
                               !.password = Some(password)]
    /\ SendFirst(get_jwt_request(address, password))
    /\ pc' = "login:token"
    /\ result' = Running("AccountManager.login")
    /\ UNCHANGED <<accounts, msgs>>

\* AccountManager.login, from the response to POST `token` up to GET `me`.
LoginToken(resp) ==
    /\ pc = "login:token"
    /\ Receive(resp)
    /\ IF RaisesForStatus(resp.status)
       THEN /\ EndCall(Raised("AccountManager.login", "HTTPError"))
            /\ UNCHANGED sent
       ELSE LET jwt == DecodeResponse(resp).token
            IN  /\ frame' = [frame EXCEPT !.jwt = Some(jwt)]
                /\ Send(get_account_data_request(jwt, None))
                /\ pc' = "login:me"
                /\ UNCHANGED result
    /\ UNCHANGED <<accounts, msgs>>

\* AccountManager.login, from the response to GET `me` to the return.
LoginMe(resp) ==
    /\ pc = "login:me"
    /\ Receive(resp)
    /\ IF RaisesForStatus(resp.status)
       THEN /\ EndCall(Raised("AccountManager.login", "HTTPError"))
            /\ UNCHANGED accounts
       ELSE LET data == [id        |-> DecodeResponse(resp).id,
                         address   |-> DecodeResponse(resp).address,
                         isDeleted |-> DecodeResponse(resp).isDeleted,
                         password  |-> frame.password[1]]
            IN  /\ accounts' = Append(accounts, Account_from_dict(data, frame.jwt))
                /\ EndCall(Returned("AccountManager.login", Len(accounts) + 1))
    /\ UNCHANGED <<msgs, sent>>

---------------------------------------------------------------------------
\* Account

\* Account.login(), up to the POST `token` request of get_jwt.
AccountLogin(a) ==
    /\ pc = "idle"
    /\ frame' = [Frame0 EXCEPT !.self = a]
    /\ SendFirst(get_jwt_request(accounts[a].address, accounts[a].password))
    /\ pc' = "Account.login"
    /\ result' = Running("Account.login")
    /\ UNCHANGED <<accounts, msgs>>

\* Account.login(), had it dropped the token before asking for a new one.
AccountLoginToken_clear_first(resp) ==
    /\ pc = "Account.login"
    /\ Receive(resp)
    /\ IF RaisesForStatus(resp.status)
       THEN /\ EndCall(Raised("Account.login", "HTTPError"))
            /\ accounts' = [accounts EXCEPT ![frame.self].jwt = None]
       ELSE /\ accounts' = [accounts EXCEPT
                               ![frame.self].jwt = Some(DecodeResponse(resp).token)]
            /\ EndCall(ReturnedNone("Account.login"))
    /\ UNCHANGED <<msgs, sent>>

\* Account.login(), from the response to POST `token` to the return.
AccountLoginToken(resp) ==
    /\ pc = "Account.login"
    /\ Receive(resp)
    /\ IF RaisesForStatus(resp.status)
       THEN /\ EndCall(Raised("Account.login", "HTTPError"))
            /\ UNCHANGED accounts
       ELSE /\ accounts' = [accounts EXCEPT
                               ![frame.self].jwt = Some(DecodeResponse(resp).token)]
            /\ EndCall(ReturnedNone("Account.login"))
    /\ UNCHANGED <<msgs, sent>>

\* Account.delete(), up to the DELETE request.
AccountDelete(a) ==
    /\ pc = "idle"
    /\ frame' = [Frame0 EXCEPT !.self = a]
    /\ SendFirst(BuildRequest("DELETE", <<"accounts", accounts[a].id>>,
                              accounts[a].jwt, None, "application/json"))
    /\ pc' = "Account.delete"
    /\ result' = Running("Account.delete")
    /\ UNCHANGED <<accounts, msgs>>

\* Account.delete(), had it flagged the account before looking at the
\* response.
AccountDeleteDone_flag_first(resp) ==
    /\ pc = "Account.delete"
    /\ Receive(resp)
    /\ accounts' = [accounts EXCEPT ![frame.self].isDeleted = TRUE]
    /\ IF RaisesForStatus(resp.status)
       THEN EndCall(Raised("Account.delete", "HTTPError"))
       ELSE EndCall(Returned("Account.delete", accounts'[frame.self].isDeleted))
    /\ UNCHANGED <<msgs, sent>>

\* Account.delete(), had it dropped the token of the deleted account.
AccountDeleteDone_logout(resp) ==
    /\ pc = "Account.delete"
    /\ Receive(resp)
    /\ IF RaisesForStatus(resp.status)
       THEN /\ EndCall(Raised("Account.delete", "HTTPError"))
            /\ UNCHANGED accounts
       ELSE /\ accounts' = [accounts EXCEPT ![frame.self].isDeleted = TRUE,
                                            ![frame.self].jwt = None]
            /\ EndCall(Returned("Account.delete", accounts'[frame.self].isDeleted))
    /\ UNCHANGED <<msgs, sent>>

\* Account.delete(), from the response to the return.
AccountDeleteDone(resp) ==
    /\ pc = "Account.delete"
    /\ Receive(resp)
    /\ IF RaisesForStatus(resp.status)
       THEN /\ EndCall(Raised("Account.delete", "HTTPError"))
            /\ UNCHANGED accounts
       ELSE /\ accounts' = [accounts EXCEPT ![frame.self].isDeleted = TRUE]
            /\ EndCall(Returned("Account.delete", accounts'[frame.self].isDeleted))
    /\ UNCHANGED <<msgs, sent>>

---------------------------------------------------------------------------
\* Message

\* __post_init__, had it measured the text after cutting it.
post_init_intro_cut_first(is_full_message, intro, text) ==
    IF is_full_message /\ intro = None /\ text # None
    THEN LET replaced == [i \in 1..Len(text[1]) |->
                              IF text[1][i] = "\n" THEN " " ELSE text[1][i]]
             cut == SubSeq(replaced, 1, IF Len(replaced) < IntroLen
                                        THEN Len(replaced) ELSE IntroLen)
         IN  Some(IF Len(cut) > IntroLen THEN cut \o <<Ellipsis>> ELSE cut)
    ELSE intro

\* Message.__post_init__: the intro of a newly constructed message.
post_init_intro(is_full_message, intro, text) ==
    IF is_full_message /\ intro = None /\ text # None
    THEN LET replaced == [i \in 1..Len(text[1]) |->
                              IF text[1][i] = "\n" THEN " " ELSE text[1][i]]
             cut == SubSeq(replaced, 1, IF Len(replaced) < IntroLen
                                        THEN Len(replaced) ELSE IntroLen)
         IN  Some(IF Len(text[1]) > IntroLen THEN cut \o <<Ellipsis>> ELSE cut)
    ELSE intro

\* The dataclass constructor of Message followed by __post_init__.  The
\* fields the library only copies (msgid, from, to, subject, size, ...) are
\* left out; `flagged` stands for the full-message fields next to `text`.
Message(account, id, seen, isDeleted, is_full_message, intro, flagged, text) ==
    [ account         |-> account,
      id              |-> id,
      seen            |-> seen,
      isDeleted       |-> isDeleted,
      is_full_message |-> is_full_message,
      intro           |-> post_init_intro(is_full_message, intro, text),
      flagged         |-> flagged,
      text            |-> text ]

\* Message._from_intro_dict(data, account)
Message_from_intro_dict(data, account) ==
    Message(account, data.id, data.seen, data.isDeleted, FALSE,
            Some(data.intro), None, None)

\* Message._from_full_dict(data, account)
Message_from_full_dict(data, account) ==
    Message(account, data.id, data.seen, data.isDeleted, TRUE,
            None, Some(data.flagged), data.text)

\* The items of a `messages?page=N` response.
Summaries ==
    {[id |-> i, intro |-> ServerIntro[i], seen |-> FALSE, isDeleted |-> FALSE] :
        i \in MsgIds}

Pages == SeqsUpTo(Summaries, MaxPageSize)

PageResponses ==
    ErrorResponses \cup OkResponses({[hydra_member |-> p] : p \in Pages})

\* The body of a `messages/{id}` response, as far as get_full_message reads it.
FullBodies == [flagged : {TRUE}, text : Opt(Texts) \ {None}]

FullResponses == ErrorResponses \cup OkResponses(FullBodies)

\* The page request, had the page number not been passed on.
download_messages_page_request_first(account, page) ==
    BuildRequest("GET", <<"messages?page=", 1>>, account.jwt, None,
                 "application/json")

\* Account._download_messages_page(page): the request it sends.
download_messages_page_request(account, page) ==
    BuildRequest("GET", <<"messages?page=", page>>, account.jwt, None,
                 "application/json")

\* Account._download_messages_page(page), from the decoded response on.
download_messages_page(data, a) ==
    [i \in 1..Len(data.hydra_member) |->
        Message_from_intro_dict(data.hydra_member[i], a)]

RECURSIVE merge_messages_overwrite(_, _, _)
\* The merge loop, had it let a downloaded summary take the place of the
\* message of the same id.
merge_messages_overwrite(heap, list, messages) ==
    IF messages = <<>>
    THEN [heap |-> heap, list |-> list]
    ELSE LET message == Head(messages)
             check == SelectSeq(list, LAMBDA x : heap[x].id = message.id)
         IN  IF Len(check) = 0
             THEN merge_messages_overwrite(Append(heap, message),
                                 Append(list, Len(heap) + 1), Tail(messages))
             ELSE merge_messages_overwrite([heap EXCEPT ![check[1]] = message],
                                 list, Tail(messages))

RECURSIVE merge_messages_prepend(_, _, _)
\* The merge loop, had it put each new message at the head of the list.
merge_messages_prepend(heap, list, messages) ==
    IF messages = <<>>
    THEN [heap |-> heap, list |-> list]
    ELSE LET message == Head(messages)
             check == SelectSeq(list, LAMBDA x : heap[x].id = message.id)
         IN  IF Len(check) = 0
             THEN merge_messages_prepend(Append(heap, message),
                                 <<Len(heap) + 1>> \o list, Tail(messages))
             ELSE merge_messages_prepend(heap, list, Tail(messages))

RECURSIVE merge_messages_stale_check(_, _, _, _)
\* The merge loop, had it looked for a downloaded id only among the
\* messages the list `before` held when the loop began.
merge_messages_stale_check(heap, list, messages, before) ==
    IF messages = <<>>
    THEN [heap |-> heap, list |-> list]
    ELSE LET message == Head(messages)
             check == SelectSeq(before, LAMBDA x : heap[x].id = message.id)
         IN  IF Len(check) = 0
             THEN merge_messages_stale_check(Append(heap, message),
                                 Append(list, Len(heap) + 1), Tail(messages),
                                 before)
             ELSE merge_messages_stale_check(heap, list, Tail(messages), before)

\* The merge loop with the stale check, as a merge of the list.
merge_messages_stale(heap, list, messages) ==
    merge_messages_stale_check(heap, list, messages, list)

RECURSIVE merge_messages(_, _, _)
\* The loop that ends Account.get_all_messages_intro: each downloaded
\* message is appended unless the list already holds one with its id.
\* `heap` is the message heap and `list` the account's list of references;
\* only the messages that are appended stay reachable and enter the heap.
merge_messages(heap, list, messages) ==
    IF messages = <<>>
    THEN [heap |-> heap, list |-> list]
    ELSE LET message == Head(messages)
             check == SelectSeq(list, LAMBDA x : heap[x].id = message.id)
         IN  IF Len(check) = 0
             THEN merge_messages(Append(heap, message),
                                 Append(list, Len(heap) + 1), Tail(messages))
             ELSE merge_messages(heap, list, Tail(messages))

\* Account.get_all_messages_intro(), up to the request for page 1.
GetAllMessagesIntro(a) ==
    /\ pc = "idle"
    /\ frame' = [Frame0 EXCEPT !.self = a, !.page = 1]
    /\ SendFirst(download_messages_page_request(accounts[a], 1))
    /\ pc' = "intro:page"
    /\ result' = Running("Account.get_all_messages_intro")
    /\ UNCHANGED <<accounts, msgs>>

\* The server sends a non-empty page only for the first MaxPages pages, and
\* no more new messages than the message heap has room for.
PageInBounds(p) ==
    \/ Len(p) = 0
    \/ /\ frame.page <= MaxPages
       /\ Len(merge_messages(msgs, accounts[frame.self].messages,
                             frame.messages \o download_messages_page(
                                 [hydra_member |-> p], frame.self)).heap)
            <= MaxMsgs

\* Account.get_all_messages_intro(), had it merged what it had downloaded
\* when a page request failed.
IntroPage_merge_on_error(resp) ==
    /\ pc = "intro:page"
    /\ Receive(resp)
    /\ IF RaisesForStatus(resp.status)
       THEN LET merged == merge_messages(
                    msgs, accounts[frame.self].messages, frame.messages)
            IN  /\ msgs' = merged.heap
                /\ accounts' = [accounts EXCEPT
                       ![frame.self].messages = merged.list]
                /\ EndCall(Raised("Account.get_all_messages_intro", "HTTPError"))
                /\ UNCHANGED sent
       ELSE LET page_messages ==
                    download_messages_page(DecodeResponse(resp), frame.self)
            IN  /\ PageInBounds(DecodeResponse(resp).hydra_member)
                /\ IF Len(page_messages) > 0
                   THEN /\ frame' = [frame EXCEPT
                                        !.messages = @ \o page_messages,
                                        !.page = @ + 1]
                        /\ Send(download_messages_page_request(
                                    accounts[frame.self], frame.page + 1))
                        /\ UNCHANGED <<accounts, msgs, pc, result>>
                   ELSE LET merged == merge_messages(
                                msgs, accounts[frame.self].messages,
                                frame.messages)
                        IN  /\ msgs' = merged.heap
                            /\ accounts' = [accounts EXCEPT
                                   ![frame.self].messages = merged.list]
                            /\ EndCall(Returned(
                                   "Account.get_all_messages_intro", merged.list))
                            /\ UNCHANGED sent

\* Account.get_all_messages_intro(), from the response for a page up to the
\* request for the next page or, after an empty page, to the return.
IntroPage(resp) ==
    /\ pc = "intro:page"
    /\ Receive(resp)
    /\ IF RaisesForStatus(resp.status)
       THEN /\ EndCall(Raised("Account.get_all_messages_intro", "HTTPError"))
            /\ UNCHANGED <<accounts, msgs, sent>>
       ELSE LET page_messages ==
                    download_messages_page(DecodeResponse(resp), frame.self)
            IN  /\ PageInBounds(DecodeResponse(resp).hydra_member)
                /\ IF Len(page_messages) > 0
                   THEN /\ frame' = [frame EXCEPT
                                        !.messages = @ \o page_messages,
                                        !.page = @ + 1]
                        /\ Send(download_messages_page_request(
                                    accounts[frame.self], frame.page + 1))
                        /\ UNCHANGED <<accounts, msgs, pc, result>>
                   ELSE LET merged == merge_messages(
                                msgs, accounts[frame.self].messages,
                                frame.messages)
                        IN  /\ msgs' = merged.heap
                            /\ accounts' = [accounts EXCEPT
                                   ![frame.self].messages = merged.list]
                            /\ EndCall(Returned(
                                   "Account.get_all_messages_intro", merged.list))
                            /\ UNCHANGED sent

\* Message.get_full_message(), up to the GET request.
GetFullMessage(m) ==
    /\ pc = "idle"
    /\ frame' = [Frame0 EXCEPT !.self = m]
    /\ SendFirst(BuildRequest("GET", <<"messages", msgs[m].id>>,
                              accounts[msgs[m].account].jwt, None,
                              "application/json"))
    /\ pc' = "Message.get_full_message"
    /\ result' = Running("Message.get_full_message")
    /\ UNCHANGED <<accounts, msgs>>

\* Message.get_full_message(), had it set the flag before looking at the
\* response.
GetFullMessageDone_flag_first(resp) ==
    /\ pc = "Message.get_full_message"
    /\ Receive(resp)
    /\ IF RaisesForStatus(resp.status)
       THEN /\ EndCall(Raised("Message.get_full_message", "HTTPError"))
            /\ msgs' = [msgs EXCEPT ![frame.self].is_full_message = TRUE]
       ELSE LET data == DecodeResponse(resp)
            IN  /\ msgs' = [msgs EXCEPT ![frame.self].is_full_message = TRUE,
                                        ![frame.self].flagged = Some(data.flagged),
                                        ![frame.self].text = data.text]
                /\ EndCall(ReturnedNone("Message.get_full_message"))
    /\ UNCHANGED <<accounts, sent>>

\* Message.get_full_message(), from the response to the return.
GetFullMessageDone(resp) ==
    /\ pc = "Message.get_full_message"
    /\ Receive(resp)
    /\ IF RaisesForStatus(resp.status)
       THEN /\ EndCall(Raised("Message.get_full_message", "HTTPError"))
            /\ UNCHANGED msgs
       ELSE LET data == DecodeResponse(resp)
            IN  /\ msgs' = [msgs EXCEPT ![frame.self].is_full_message = TRUE,
                                        ![frame.self].flagged = Some(data.flagged),
                                        ![frame.self].text = data.text]
                /\ EndCall(ReturnedNone("Message.get_full_message"))
    /\ UNCHANGED <<accounts, sent>>

\* Message.delete(), had it sent the request before touching local state.
MessageDelete_remote_first(m) ==
    /\ pc = "idle"
    /\ frame' = [Frame0 EXCEPT !.self = m]
    /\ SendFirst(BuildRequest("DELETE", <<"messages", msgs[m].id>>,
                              accounts[msgs[m].account].jwt, None,
                              "application/json"))
    /\ pc' = "Message.delete"
    /\ result' = Running("Message.delete")
    /\ UNCHANGED <<accounts, msgs>>

\* Message.delete(), up to the DELETE request: the local changes are made
\* before the request is sent.
MessageDelete(m) ==
    /\ pc = "idle"
    /\ frame' = [Frame0 EXCEPT !.self = m]
    /\ msgs' = [msgs EXCEPT ![m].isDeleted = TRUE]
    /\ accounts' = [accounts EXCEPT ![msgs[m].account].messages =
                       SelectSeq(@, LAMBDA x : msgs[x].id # msgs[m].id)]
    /\ SendFirst(BuildRequest("DELETE", <<"messages", msgs[m].id>>,
                              accounts[msgs[m].account].jwt, None,
                              "application/json"))
    /\ pc' = "Message.delete"
    /\ result' = Running("Message.delete")

\* Message.delete(), had it caught the error of the request.
MessageDeleteDone_swallow(resp) ==
    /\ pc = "Message.delete"
    /\ Receive(resp)
    /\ EndCall(ReturnedNone("Message.delete"))
    /\ UNCHANGED <<accounts, msgs, sent>>

\* Message.delete(), from the response to the return.
MessageDeleteDone(resp) ==
    /\ pc = "Message.delete"
    /\ Receive(resp)
    /\ EndCall(IF RaisesForStatus(resp.status)
               THEN Raised("Message.delete", "HTTPError")
               ELSE ReturnedNone("Message.delete"))
    /\ UNCHANGED <<accounts, msgs, sent>>

\* Message.mark_as_seen(), up to the PATCH request: the flag is set before
\* the request is sent.
MarkAsSeen(m) ==
    /\ pc = "idle"
    /\ frame' = [Frame0 EXCEPT !.self = m]
    /\ msgs' = [msgs EXCEPT ![m].seen = TRUE]
    /\ SendFirst(BuildRequest("PATCH", <<"messages", msgs[m].id>>,
                              accounts[msgs[m].account].jwt,
                              Some([seen |-> TRUE]), "application/ld+json"))
    /\ pc' = "Message.mark_as_seen"
    /\ result' = Running("Message.mark_as_seen")
    /\ UNCHANGED accounts

\* Message.mark_as_seen(), from the response to the return.
MarkAsSeenDone(resp) ==
    /\ pc = "Message.mark_as_seen"
    /\ Receive(resp)
    /\ EndCall(IF RaisesForStatus(resp.status)
               THEN Raised("Message.mark_as_seen", "HTTPError")
               ELSE ReturnedNone("Message.mark_as_seen"))
    /\ UNCHANGED <<accounts, msgs, sent>>

PatchResponses == ErrorResponses \cup OkResponses({[seen |-> TRUE]})

---------------------------------------------------------------------------
\* The account manager in use: accounts are created and logged in, logged
\* in again and deleted, in any order, each call run to its end.

NoCall == [op |-> "none", kind |-> "none", value |-> None]

InitManager ==
    /\ accounts = <<>>
    /\ msgs = <<>>
    /\ pc = "idle"
    /\ frame = Frame0
    /\ sent = <<>>
    /\ received = None
    /\ result = NoCall

AccountCalls ==
    \/ \E a \in 1..Len(accounts) : AccountLogin(a)
    \/ \E resp \in TokenResponses : AccountLoginToken(resp)
    \/ \E a \in 1..Len(accounts) : AccountDelete(a)
    \/ \E resp \in DeleteResponses : AccountDeleteDone(resp)

NextManager ==
    \/ \E user \in Opt(Users), domain \in Opt(RequestedDomains),
          password \in Opt(Passwords) : New(user, domain, password)
    \/ \E resp \in DomainsResponses, u \in GeneratedUsers,
          p \in GeneratedPasswords : NewDomains(resp, u, p)
    \/ \E resp \in AccountResponses : NewAccounts(resp)
    \/ \E address \in Addresses, password \in Passwords : Login(address, password)
    \/ \E resp \in TokenResponses : LoginToken(resp)
    \/ \E resp \in AccountResponses : LoginMe(resp)
    \/ \E address \in Addresses, password \in Passwords : GetJwt(address, password)
    \/ \E resp \in TokenResponses : GetJwtDone(resp)
    \/ GetActiveDomains
    \/ \E resp \in DomainsResponses : GetActiveDomainsDone(resp)
    \/ \E id \in DomainIds : GetDomain(id)
    \/ \E resp \in DomainResponses : GetDomainDone(resp)
    \/ AccountCalls

SpecManager == InitManager /\ [][NextManager]_vars

---------------------------------------------------------------------------
\* A mailbox in use: one account, as AccountManager.new (no token) or
\* AccountManager.login (a token) returned it, and every call on it and on
\* its messages, in any order, each call run to its end.

MailboxData ==
    [ id |-> "acc1", address |-> [user |-> "bob", domain |-> "d1.test"],
      isDeleted |-> FALSE, password |-> "pw" ]

InitMailbox ==
    /\ accounts \in {<<Account_from_dict(MailboxData, jwt)>> : jwt \in Opt(Tokens)}
    /\ msgs = <<>>
    /\ pc = "idle"
    /\ frame = Frame0
    /\ sent = <<>>
    /\ received = None
    /\ result = NoCall

NextMailbox ==
    \/ AccountCalls
    \/ \E a \in 1..Len(accounts) : GetAllMessagesIntro(a)
    \/ \E resp \in PageResponses : IntroPage(resp)
    \/ \E m \in 1..Len(msgs) : GetFullMessage(m)
    \/ \E resp \in FullResponses : GetFullMessageDone(resp)
    \/ \E m \in 1..Len(msgs) : MessageDelete(m)
    \/ \E resp \in DeleteResponses : MessageDeleteDone(resp)
    \/ \E m \in 1..Len(msgs) : MarkAsSeen(m)
    \/ \E resp \in PatchResponses : MarkAsSeenDone(resp)

SpecMailbox == InitMailbox /\ [][NextMailbox]_vars

---------------------------------------------------------------------------
\* The whole library in use by one program: every public call of
\* DomainManager, AccountManager, Account and Message, in any order, each
\* call run to its end.  The program creates or logs in the account of
\* MailboxData, and the server answers with any list of domains, any token,
\* any page and any error.

LibraryAccountResponses ==
    ErrorResponses
       \cup OkResponses({d \in AccountData : d.address = MailboxData.address})

NextLibrary ==
    \/ \E domain \in Opt({MailboxData.address.domain}) :
          New(Some(MailboxData.address.user), domain, Some(MailboxData.password))
    \/ \E resp \in DomainsResponses, u \in GeneratedUsers,
          p \in GeneratedPasswords : NewDomains(resp, u, p)
    \/ \E resp \in LibraryAccountResponses : NewAccounts(resp)
    \/ Login(MailboxData.address, MailboxData.password)
    \/ \E resp \in TokenResponses : LoginToken(resp)
    \/ \E resp \in LibraryAccountResponses : LoginMe(resp)
    \/ GetJwt(MailboxData.address, MailboxData.password)
    \/ \E resp \in TokenResponses : GetJwtDone(resp)
    \/ GetActiveDomains
    \/ \E resp \in DomainsResponses : GetActiveDomainsDone(resp)
    \/ \E id \in DomainIds : GetDomain(id)
    \/ \E resp \in DomainResponses : GetDomainDone(resp)
    \/ NextMailbox

SpecLibrary == InitManager /\ [][NextLibrary]_vars

---------------------------------------------------------------------------
\* Message construction on its own: a caller is about to build a Message,
\* directly or with Message._from_full_dict, from data drawn from all texts
\* up to MaxTextLen characters with newlines at regular places.

NewlineEvery == {0, 1, 2, 7}

TextOf(n, k) ==
    [i \in 1..n |-> IF k > 0 /\ i % k = 0 THEN "\n" ELSE "a"]

InputTexts == {TextOf(n, k) : n \in 0..MaxTextLen, k \in NewlineEvery}

ConstructorArgs ==
    [ via : {"Message"}, is_full_message : BOOLEAN, intro : Opt(Intros),
      text : Opt(InputTexts) ]
    \cup
    [ via : {"_from_full_dict"}, is_full_message : {TRUE}, intro : {None},
      text : Opt(InputTexts) ]

InitIntro ==
    /\ accounts = <<Account_from_dict(MailboxData, None)>>
    /\ msgs = <<>>
    /\ pc = "construct"
    /\ frame \in {[Frame0 EXCEPT !.self = 1, !.args = Some(a)] :
                     a \in ConstructorArgs}
    /\ sent = <<>>
    /\ received = None
    /\ result = NoCall

\* Message(...) called directly; the arguments stay with the caller.
Construct ==
    /\ pc = "construct"
    /\ frame.args[1].via = "Message"
    /\ msgs' = Append(msgs, Message(frame.self, "m1", FALSE, FALSE,
                                    frame.args[1].is_full_message,
                                    frame.args[1].intro, None,
                                    frame.args[1].text))
    /\ pc' = "idle"
    /\ result' = Returned("Message", Len(msgs) + 1)
    /\ UNCHANGED <<accounts, frame, sent, received>>

\* Message._from_full_dict(data, account) called on the data of a response.
ConstructFromFullDict ==
    /\ pc = "construct"
    /\ frame.args[1].via = "_from_full_dict"
    /\ msgs' = Append(msgs, Message_from_full_dict(
                                [id |-> "m1", seen |-> FALSE, isDeleted |-> FALSE,
                                 flagged |-> FALSE, text |-> frame.args[1].text],
                                frame.self))
    /\ pc' = "idle"
    /\ result' = Returned("Message._from_full_dict", Len(msgs) + 1)
    /\ UNCHANGED <<accounts, frame, sent, received>>

NextIntro == Construct \/ ConstructFromFullDict

SpecIntro == InitIntro /\ [][NextIntro]_vars

---------------------------------------------------------------------------
\* The request dispatcher on its own: a caller is about to call
\* make_api_request with any verb, with no token, an empty one or a token,
\* with or without a body, and the server answers with any status, with or
\* without content.

HTTPVerb == {"GET", "POST", "DELETE", "PATCH"}

DispatchArgs ==
    [ verb : HTTPVerb, endpoint : {<<"me">>, <<"messages", "m1">>},
      jwt : Opt({""} \cup Tokens), data : Opt({[seen |-> TRUE]}),
      content : {"application/json", "application/ld+json"} ]

DispatchResponses ==
    ErrorResponses
       \cup [status : {200} \cup NoContentStatuses,
             content : Opt({[seen |-> TRUE]})]

InitDispatch ==
    /\ accounts = <<>>
    /\ msgs = <<>>
    /\ pc = "dispatch"
    /\ frame \in {[Frame0 EXCEPT !.args = Some(a)] : a \in DispatchArgs}
    /\ sent = <<>>
    /\ received = None
    /\ result = NoCall

\* make_api_request(requests_verb, endpoint, jwt, data, content), up to the
\* request.
MakeApiRequest ==
    /\ pc = "dispatch"
    /\ SendFirst(BuildRequest(frame.args[1].verb, frame.args[1].endpoint,
                              frame.args[1].jwt, frame.args[1].data,
                              frame.args[1].content))
    /\ pc' = "make_api_request"
    /\ result' = Running("make_api_request")
    /\ UNCHANGED <<accounts, msgs, frame>>

\* make_api_request, from the response to the return.
MakeApiRequestDone(resp) ==
    /\ pc = "make_api_request"
    /\ Receive(resp)
    /\ EndCall(IF RaisesForStatus(resp.status)
               THEN Raised("make_api_request", "HTTPError")
               ELSE Returned("make_api_request", DecodeResponse(resp)))
    /\ UNCHANGED <<accounts, msgs, sent>>

NextDispatch ==
    \/ MakeApiRequest
    \/ \E resp \in DispatchResponses : MakeApiRequestDone(resp)

SpecDispatch == InitDispatch /\ [][NextDispatch]_vars

---------------------------------------------------------------------------
\* Properties

\* The last response received, once one has been.
Resp == received[1]
Failed(r) == r.status >= 400
IsRequest(r, verb, endpoint) == r.verb = verb /\ r.url = <<api_address>> \o endpoint
Ended(op, kind) == pc = "idle" /\ result.op = op /\ result.kind = kind

\* The message list of account a, and the ids the list holds at position k.
ListOf(a) == accounts[a].messages
PositionsOf(heap, list, id) == {k \in 1..Len(list) : heap[list[k]].id = id}

\* C1: Merge-by-id preserves full messages.  In every step of
\* Account.get_all_messages_intro, whatever the pages hold, each message of
\* the account's list that is fully loaded keeps its place in the list, is
\* the same object with all its fields unchanged, and remains the only
\* message of the list with its id.
C1_MergeKeepsFullMessages ==
    [][ pc = "intro:page" =>
          \A k \in 1..Len(ListOf(frame.self)) :
             LET m == ListOf(frame.self)[k]
                 list2 == accounts'[frame.self].messages
             IN  msgs[m].is_full_message =>
                   /\ k <= Len(list2)
                   /\ list2[k] = m
                   /\ msgs'[m] = msgs[m]
                   /\ msgs'[m].is_full_message
                   /\ PositionsOf(msgs', list2, msgs[m].id) = {k} ]_vars

\* A listing has returned, the server listed the id of a message that was
\* fully loaded before, and that message is in the list.
C1_Witness ==
    /\ Ended("Account.get_all_messages_intro", "ok")
    /\ \E k \in 1..Len(ListOf(frame.self)) :
          /\ msgs[ListOf(frame.self)[k]].is_full_message
          /\ \E j \in 1..Len(frame.messages) :
                frame.messages[j].id = msgs[ListOf(frame.self)[k]].id

\* The requests of a listing so far are GET messages?page=1, 2, ..., in order.
PageRequestsInOrder ==
    \A i \in 1..Len(sent) :
       IsRequest(sent[i], "GET", <<"messages?page=", i>>)

DistinctIds(messages) ==
    \A i, j \in 1..Len(messages) : messages[i].id = messages[j].id => i = j

\* C2: Pagination of Account.get_all_messages_intro.  The requests of a
\* call are messages?page=1, 2, 3, ... in order, none skipped or repeated;
\* a non-empty page is always followed by the request for the next page; the
\* first empty page ends the call with no further request, so that k
\* non-empty pages make k+1 requests; and on an account whose list is empty,
\* with distinct ids, the returned list is the downloaded summaries in page
\* order.
C2_Pagination ==
    /\ [](result.op = "Account.get_all_messages_intro" =>
            PageRequestsInOrder /\ Len(sent) = frame.page)
    /\ [][ pc = "intro:page" /\ ~Failed(received'[1]) =>
             LET items == received'[1].content[1].hydra_member
             IN  IF Len(items) > 0
                 THEN /\ pc' = "intro:page"
                      /\ Len(sent') = Len(sent) + 1
                      /\ Len(frame'.messages) = Len(frame.messages) + Len(items)
                      /\ \A i \in 1..Len(items) :
                            /\ frame'.messages[Len(frame.messages) + i].id = items[i].id
                            /\ frame'.messages[Len(frame.messages) + i].intro
                                 = Some(items[i].intro)
                      /\ SubSeq(frame'.messages, 1, Len(frame.messages))
                           = frame.messages
                 ELSE /\ pc' = "idle"
                      /\ result'.kind = "ok"
                      /\ sent' = sent
                      /\ (ListOf(frame.self) = <<>> /\ DistinctIds(frame.messages)
                            => /\ result'.value[1] = accounts'[frame.self].messages
                               /\ Len(result'.value[1]) = Len(frame.messages)
                               /\ \A i \in 1..Len(frame.messages) :
                                     msgs'[result'.value[1][i]] = frame.messages[i])
         ]_vars

\* A listing of two non-empty pages and an empty one has returned, on an
\* account whose list was empty: three requests, two summaries.
C2_Witness ==
    /\ Ended("Account.get_all_messages_intro", "ok")
    /\ Len(sent) = 3
    /\ Len(frame.messages) = 2
    /\ Len(msgs) = 2
    /\ Len(ListOf(frame.self)) = 2

IsPostAccounts(r) == IsRequest(r, "POST", <<"accounts">>)

DomainListed(domain, members) ==
    \E i \in 1..Len(members) : members[i].domain = domain

\* C3: AccountManager.new with a domain that equals the name of no domain
\* of the active domain list it gets ends with DomainNotAvailable, whatever
\* user and password are given, and no POST `accounts` is sent in that call.
C3_UnknownDomainRejected ==
    /\ [][ /\ pc = "new:domains"
           /\ ~Failed(received'[1])
           /\ frame.domain # None
           /\ ~DomainListed(frame.domain[1], received'[1].content[1].hydra_member)
           => /\ pc' = "idle"
              /\ result' = Raised("AccountManager.new", "DomainNotAvailable")
              /\ sent' = sent
              /\ accounts' = accounts ]_vars
    /\ [](result.op = "AccountManager.new" /\ result.kind = "DomainNotAvailable"
            => \A i \in 1..Len(sent) : ~IsPostAccounts(sent[i]))

\* new(domain = "nonexistent.test") has ended with DomainNotAvailable
\* against a non-empty domain list.
C3_Witness ==
    /\ Ended("AccountManager.new", "DomainNotAvailable")
    /\ frame.domain = Some("nonexistent.test")
    /\ Len(Resp.content[1].hydra_member) > 0

\* C4 as stated: when AccountManager.new ends with DomainNotAvailable, no
\* HTTP request of any kind has been sent.
C4_NoRequestBeforeDomainNotAvailable ==
    Ended("AccountManager.new", "DomainNotAvailable") => Len(sent) = 0

\* C4, amended: when AccountManager.new ends with DomainNotAvailable, the
\* call has sent exactly one request, the unauthenticated GET `domains`
\* that fetches the active domain list, and nothing else.
C4_OnlyDomainsRequestBeforeDomainNotAvailable ==
    Ended("AccountManager.new", "DomainNotAvailable") =>
       /\ Len(sent) = 1
       /\ IsRequest(sent[1], "GET", <<"domains">>)
       /\ sent[1].headers.authorization = None
       /\ sent[1].payload = None

\* DomainNotAvailable has been raised for a domain given with a password.
C4_Witness ==
    /\ Ended("AccountManager.new", "DomainNotAvailable")
    /\ frame.password # None
    /\ Len(sent) = 1

\* C5: AccountManager.login.  The call sends POST `token`, then GET `me`
\* with the token of the response as bearer token; when it returns, the
\* Account it built is logged in with that token; when the token request
\* fails, the call fails at once: no GET `me`, no Account.
C5_LoginOrder ==
    /\ [](pc = "login:me" \/ Ended("AccountManager.login", "ok") =>
            /\ Len(sent) = 2
            /\ IsRequest(sent[1], "POST", <<"token">>)
            /\ IsRequest(sent[2], "GET", <<"me">>)
            /\ sent[2].headers.authorization = Some(<<"Bearer", frame.jwt[1]>>))
    /\ [](pc = "login:me" => frame.jwt = Some(Resp.content[1].token))
    /\ [](Ended("AccountManager.login", "ok") =>
            /\ result.value[1] = Len(accounts)
            /\ is_logged_in(accounts[result.value[1]])
            /\ accounts[result.value[1]].jwt = frame.jwt)
    /\ [][ pc = "login:token" /\ Failed(received'[1]) =>
             /\ pc' = "idle"
             /\ result' = Raised("AccountManager.login", "HTTPError")
             /\ sent' = sent
             /\ Len(sent) = 1
             /\ accounts' = accounts ]_vars
    /\ [][ result'.op = "AccountManager.login" /\ Len(accounts') # Len(accounts)
             => pc = "login:me" /\ ~Failed(received'[1]) ]_vars

\* A login has returned an Account.
C5_Witness ==
    /\ Ended("AccountManager.login", "ok")
    /\ Len(accounts) >= 1
    /\ accounts[Len(accounts)].jwt \in {Some(t) : t \in Tokens}

\* C6: Account.delete().  When the DELETE request succeeds the account is
\* flagged deleted and the call returns the value of the flag, TRUE; when
\* it fails the call raises the HTTP error and the flag is what it was.
C6_AccountDelete ==
    [][ pc = "Account.delete" =>
          /\ IsRequest(sent[1], "DELETE", <<"accounts", accounts[frame.self].id>>)
          /\ IF Failed(received'[1])
             THEN /\ result' = Raised("Account.delete", "HTTPError")
                  /\ accounts'[frame.self].isDeleted = accounts[frame.self].isDeleted
             ELSE /\ accounts'[frame.self].isDeleted = TRUE
                  /\ result' = Returned("Account.delete", TRUE)
                  /\ result'.value[1] = accounts'[frame.self].isDeleted ]_vars

\* An account that was not flagged has been deleted.
C6_Witness ==
    /\ Ended("Account.delete", "ok")
    /\ accounts[frame.self].isDeleted
    /\ Resp.status = 204

\* C7: the token of an account.  No step of any call other than
\* Account.login() on that account changes the account's jwt, and an
\* account that is logged in stays logged in through every step of
\* get_all_messages_intro, Account.delete, get_full_message, Message.delete
\* and mark_as_seen, whether the call succeeds or fails.
C7_TokenKept ==
    [][ \A a \in 1..Len(accounts) :
          /\ accounts'[a].jwt # accounts[a].jwt
               => pc = "Account.login" /\ frame.self = a
          /\ is_logged_in(accounts[a]) /\ result'.op # "Account.login"
               => is_logged_in(accounts'[a]) /\ accounts'[a].jwt = accounts[a].jwt
      ]_vars

\* A logged-in account has been deleted, and a call on one of its messages
\* has failed after that.
C7_Witness ==
    /\ Ended("Message.delete", "HTTPError")
    /\ accounts[msgs[frame.self].account].isDeleted
    /\ is_logged_in(accounts[msgs[frame.self].account])

\* C8: local before remote on Message.  While the DELETE request of
\* Message.delete() is out, the message is flagged deleted and no message
\* with its id is in the owning account's list; while the PATCH request of
\* mark_as_seen() is out, the message is seen.  When the request fails the
\* call raises the HTTP error and nothing is rolled back.
C8_LocalBeforeRemote ==
    /\ [](pc = "Message.delete" \/ Ended("Message.delete", "HTTPError") =>
            /\ msgs[frame.self].isDeleted
            /\ PositionsOf(msgs, ListOf(msgs[frame.self].account),
                           msgs[frame.self].id) = {}
            /\ Len(sent) = 1
            /\ IsRequest(sent[1], "DELETE", <<"messages", msgs[frame.self].id>>))
    /\ [](pc = "Message.mark_as_seen" \/ Ended("Message.mark_as_seen", "HTTPError") =>
            /\ msgs[frame.self].seen
            /\ Len(sent) = 1
            /\ IsRequest(sent[1], "PATCH", <<"messages", msgs[frame.self].id>>))
    /\ [][ (pc = "Message.delete" \/ pc = "Message.mark_as_seen") =>
             /\ msgs' = msgs
             /\ accounts' = accounts
             /\ (Failed(received'[1]) => result'.kind = "HTTPError") ]_vars

\* A listed, unflagged message has been deleted locally and the DELETE
\* request has failed.
C8_Witness ==
    /\ Ended("Message.delete", "HTTPError")
    /\ msgs[frame.self].isDeleted
    /\ Failed(Resp)
    /\ ListOf(msgs[frame.self].account) = <<>>
    /\ Len(msgs) = 1

\* C9: summary and full state.  Every message a listing adds is not fully
\* loaded, has the intro the server sent for it and no body; a message
\* becomes fully loaded only in the step in which a get_full_message call on
\* it gets a successful response; and a get_full_message call whose request
\* fails raises the HTTP error and changes no message.
C9_SummaryAndFull ==
    /\ [][ \A m \in 1..Len(msgs') :
             IF m > Len(msgs)
             THEN /\ pc = "intro:page"
                  /\ ~msgs'[m].is_full_message
                  /\ msgs'[m].intro = Some(ServerIntro[msgs'[m].id])
                  /\ msgs'[m].text = None
                  /\ msgs'[m].flagged = None
             ELSE /\ msgs'[m].is_full_message /\ ~msgs[m].is_full_message
                    => /\ pc = "Message.get_full_message"
                       /\ frame.self = m
                       /\ ~Failed(received'[1])
                  /\ msgs'[m].intro = msgs[m].intro ]_vars
    /\ [][ pc = "Message.get_full_message" =>
             IF Failed(received'[1])
             THEN /\ msgs' = msgs
                  /\ result' = Raised("Message.get_full_message", "HTTPError")
             ELSE /\ msgs'[frame.self].is_full_message
                  /\ msgs'[frame.self].text = received'[1].content[1].text ]_vars

\* Of two listed messages one is fully loaded, and a get_full_message call
\* on the other, still a summary, has failed.
C9_Witness ==
    /\ Ended("Message.get_full_message", "HTTPError")
    /\ ~msgs[frame.self].is_full_message
    /\ msgs[frame.self].intro = Some(ServerIntro[msgs[frame.self].id])
    /\ \E m \in 1..Len(msgs) : msgs[m].is_full_message /\ msgs[m].text # None

Min(a, b) == IF a < b THEN a ELSE b

\* C10: intro synthesis.  A message built with full data, no intro and a
\* text T has as intro the first 120 characters of T, each newline turned
\* into a space, followed by the ellipsis character exactly when T is longer
\* than 120 characters; an intro that is given is kept as given.
C10_IntroSynthesis ==
    pc = "idle" /\ Len(msgs) = 1 =>
       LET args == frame.args[1]
           T == args.text[1]
           intro == msgs[1].intro[1]
       IN  /\ args.intro # None => msgs[1].intro = args.intro
           /\ args.is_full_message /\ args.intro = None /\ args.text # None =>
                /\ msgs[1].intro # None
                /\ Len(intro) = Min(Len(T), IntroLen)
                                  + (IF Len(T) > IntroLen THEN 1 ELSE 0)
                /\ \A i \in 1..Min(Len(T), IntroLen) :
                      intro[i] = (IF T[i] = "\n" THEN " " ELSE T[i])
                /\ Len(T) > IntroLen => intro[IntroLen + 1] = Ellipsis
                /\ msgs[1].text = args.text

\* A message has been built from full data whose text is 61 times "a\n":
\* 122 characters, cut to 120 and marked.
C10_Witness ==
    /\ pc = "idle"
    /\ Len(msgs) = 1
    /\ frame.args[1].via = "_from_full_dict"
    /\ frame.args[1].text = Some(TextOf(122, 2))
    /\ Len(msgs[1].intro[1]) = IntroLen + 1
    /\ msgs[1].intro[1][2] = " "
    /\ msgs[1].intro[1][IntroLen + 1] = Ellipsis

\* C11: AccountManager.new on success.  The POST `accounts` body carries the
\* caller's password, or the generated one when none was given, and, when no
\* domain was given, an address in the first domain of the active domain
\* list just received; the call then returns a new Account that holds the
\* password of that body and no token, so that is_logged_in() is false.
C11_NewAccount ==
    [][ /\ (pc = "new:domains" /\ pc' = "new:accounts") =>
              LET body == sent'[2].payload[1].json
                  members == received'[1].content[1].hydra_member
              IN  /\ Len(sent') = 2
                  /\ IsPostAccounts(sent'[2])
                  /\ IF frame.password = None
                     THEN body.password \in GeneratedPasswords
                     ELSE body.password = frame.password[1]
                  /\ frame.domain = None =>
                        body.address.domain = members[1].domain
        /\ (pc = "new:accounts" /\ ~Failed(received'[1])) =>
              /\ Len(accounts') = Len(accounts) + 1
              /\ result' = Returned("AccountManager.new", Len(accounts'))
              /\ LET account == accounts'[Len(accounts')]
                 IN  /\ account.jwt = None
                     /\ ~is_logged_in(account)
                     /\ account.password = sent[2].payload[1].json.password
      ]_vars

\* AccountManager.new, called without domain and without password, has
\* returned an account: it holds the generated password and no token.
C11_Witness ==
    /\ Ended("AccountManager.new", "ok")
    /\ frame.domain = None
    /\ frame.user # None
    /\ accounts[result.value[1]].password \in GeneratedPasswords
    /\ sent[2].payload[1].json.password \in GeneratedPasswords
    /\ ~is_logged_in(accounts[result.value[1]])

\* A response arrives for the request the running call waits for.
ResponseArrives == pc # "idle" /\ pc # "construct" /\ received' # None

\* C12 as stated: in every public call, a response whose status is outside
\* 200..299 ends the call with an error, without a normal result and without
\* any further request.
C12_Non2xxEndsCall ==
    [][ (ResponseArrives /\ (received'[1].status < 200 \/ received'[1].status > 299)) =>
           /\ pc' = "idle"
           /\ result'.op = result.op
           /\ result'.kind \notin {"ok", "running", "none"}
           /\ sent' = sent ]_vars

\* C12, for the statuses raise_for_status raises for: in every public call,
\* a response with a 4xx or 5xx status ends the call with HTTPError, without
\* a normal result and without any further request.
C12_ErrorStatusEndsCall ==
    [][ (ResponseArrives /\ RaisesForStatus(received'[1].status)) =>
           /\ pc' = "idle"
           /\ result' = Raised(result.op, "HTTPError")
           /\ sent' = sent ]_vars

\* AccountManager.login got its token and then an error for GET `me`: it
\* has ended with HTTPError after two requests.
C12_Witness ==
    /\ Ended("AccountManager.login", "HTTPError")
    /\ Len(sent) = 2
    /\ IsRequest(sent[2], "GET", <<"me">>)
    /\ RaisesForStatus(Resp.status)
    /\ accounts = <<>>

\* C13: request shape.  Every request make_api_request sends carries the
\* accept header and the Content-Type the caller chose; it carries
\* `Authorization: Bearer <token>` exactly when a token (a non-empty string)
\* was given; it carries a payload, the serialized body, exactly when the
\* verb is POST or PATCH and a body was given, so never for GET and DELETE;
\* and a response that does not raise and has no content yields the empty
\* mapping.
C13_RequestShape ==
    pc \in {"make_api_request", "idle"} =>
       LET a == frame.args[1]
           r == sent[1]
       IN  /\ Len(sent) = 1
           /\ r.verb = a.verb
           /\ r.url = <<api_address>> \o a.endpoint
           /\ r.headers.accept = "application/ld+json"
           /\ r.headers.contentType = a.content
           /\ r.headers.authorization # None <=> (a.jwt # None /\ a.jwt[1] # "")
           /\ r.headers.authorization # None =>
                 r.headers.authorization[1] = <<"Bearer", a.jwt[1]>>
           /\ r.payload # None <=> (a.verb \in {"POST", "PATCH"} /\ a.data # None)
           /\ r.payload # None => r.payload[1] = JsonDumps(a.data[1])
           /\ a.verb \in {"GET", "DELETE"} => r.payload = None
           /\ (pc = "idle" /\ ~RaisesForStatus(Resp.status)) =>
                 /\ result.kind = "ok"
                 /\ Resp.content = None => result.value = Some(EmptyDict)
                 /\ Resp.content # None => result.value = Resp.content

\* A DELETE called with a token and a body has been sent with the header
\* and without payload, and its answer without content has come back as the
\* empty mapping.
C13_Witness ==
    /\ Ended("make_api_request", "ok")
    /\ frame.args[1].verb = "DELETE"
    /\ frame.args[1].jwt = Some("t1")
    /\ frame.args[1].data # None
    /\ sent[1].headers.authorization = Some(<<"Bearer", "t1">>)
    /\ sent[1].payload = None
    /\ Resp.content = None
    /\ result.value = Some(EmptyDict)

\* The places in the downloaded messages dl of a first message with an id
\* that none of the ids `known` has.
FreshPlaces(dl, known) ==
    {i \in 1..Len(dl) : /\ dl[i].id \notin known
                        /\ \A j \in 1..(i - 1) : dl[j].id # dl[i].id}

\* C14: Account.get_all_messages_intro only appends.  In every step of the
\* call the list before the step is a prefix of the list after it, and the
\* messages it holds are unchanged, whether or not the pages still list
\* them; when the call returns, the messages appended are the downloaded
\* ones with a new id, in the order of the pages, and the value returned is
\* the account's whole list.
C14_AppendOnly ==
    [][ pc = "intro:page" =>
          LET old == ListOf(frame.self)
              new == accounts'[frame.self].messages
              known == {msgs[old[k]].id : k \in 1..Len(old)}
              fresh == FreshPlaces(frame.messages, known)
          IN  /\ Len(new) >= Len(old)
              /\ \A k \in 1..Len(old) :
                    new[k] = old[k] /\ msgs'[old[k]] = msgs[old[k]]
              /\ pc' # "idle" => new = old
              /\ (pc' = "idle" /\ result'.kind = "ok") =>
                    /\ result'.value = Some(new)
                    /\ Len(new) = Len(old) + Cardinality(fresh)
                    /\ \A i \in fresh :
                          msgs'[new[Len(old) + 1 + Cardinality({j \in fresh : j < i})]]
                             = frame.messages[i]
      ]_vars

\* A second call has returned: the list held m1 from an earlier call, the
\* server listed only m2 this time, and the value returned is the list of
\* m1 followed by m2.
C14_Witness ==
    /\ Ended("Account.get_all_messages_intro", "ok")
    /\ Len(frame.messages) = 1
    /\ frame.messages[1].id = "m2"
    /\ Len(ListOf(frame.self)) = 2
    /\ msgs[ListOf(frame.self)[1]].id = "m1"
    /\ msgs[ListOf(frame.self)[2]].id = "m2"
    /\ result.value = Some(ListOf(frame.self))

\* C15: unique ids.  From an empty message list on, whatever calls of
\* get_all_messages_intro, get_full_message, mark_as_seen and
\* Message.delete have been made, whether they succeeded or failed and
\* whatever the pages held (the same id twice on one page or on two pages
\* included), no two places of an account's message list hold messages with
\* the same id.
C15_UniqueIds ==
    \A a \in 1..Len(accounts) :
       \A j, k \in 1..Len(ListOf(a)) :
          msgs[ListOf(a)[j]].id = msgs[ListOf(a)[k]].id => j = k

\* A call has returned after the server listed m1 twice on page 1 and m1
\* again with m2 on page 2: the list holds m1 and m2 once each.
C15_Witness ==
    /\ Ended("Account.get_all_messages_intro", "ok")
    /\ Len(frame.messages) = 4
    /\ frame.messages[1].id = "m1"
    /\ frame.messages[2].id = "m1"
    /\ \E i \in 3..4 : frame.messages[i].id = "m1"
    /\ \E i \in 3..4 : frame.messages[i].id = "m2"
    /\ Len(ListOf(frame.self)) = 2

\* C16: all or nothing.  When the request for a page of
\* Account.get_all_messages_intro fails, for the first page or a later one,
\* the call ends with that error and the account's message list and every
\* message are as they were before the call: what earlier pages of the call
\* delivered is not merged.  Before the call ends no step changes the list.
C16_AllOrNothing ==
    [][ pc = "intro:page" =>
          /\ pc' = "intro:page" => (accounts' = accounts /\ msgs' = msgs)
          /\ Failed(received'[1]) =>
                /\ pc' = "idle"
                /\ result' = Raised("Account.get_all_messages_intro", "HTTPError")
                /\ accounts' = accounts
                /\ msgs' = msgs
                /\ sent' = sent
      ]_vars

\* The request for page 2 has failed after page 1 delivered m1 and m2: the
\* call has ended with the error and the list is still empty.
C16_Witness ==
    /\ Ended("Account.get_all_messages_intro", "HTTPError")
    /\ Len(sent) = 2
    /\ Failed(Resp)
    /\ Len(frame.messages) = 2
    /\ frame.messages[1].id # frame.messages[2].id
    /\ ListOf(frame.self) = <<>>
    /\ msgs = <<>>

\* C17: a failed Account.login() keeps the session.  When the POST `token`
\* request of Account.login() fails, the call ends with that error and the
\* account is as before: the same token, or none, and so the same
\* is_logged_in(); the token is replaced, by the one of the response, only
\* when the request succeeds.
C17_FailedLoginKeepsToken ==
    [][ pc = "Account.login" =>
          LET before == accounts[frame.self]
              after == accounts'[frame.self]
          IN  /\ IsRequest(sent[1], "POST", <<"token">>)
              /\ Len(sent) = 1 /\ sent' = sent
              /\ IF Failed(received'[1])
                 THEN /\ result' = Raised("Account.login", "HTTPError")
                      /\ after.jwt = before.jwt
                      /\ is_logged_in(after) = is_logged_in(before)
                      /\ accounts' = accounts
                 ELSE /\ result' = ReturnedNone("Account.login")
                      /\ after.jwt = Some(received'[1].content[1].token)
                      /\ after = [before EXCEPT !.jwt = after.jwt]
      ]_vars

\* Account.login() has failed on an account that was logged in: the account
\* still holds its token.
C17_Witness ==
    /\ Ended("Account.login", "HTTPError")
    /\ Failed(Resp)
    /\ accounts[frame.self].jwt \in {Some(t) : t \in Tokens}
    /\ is_logged_in(accounts[frame.self])

====
